---------------------------- MODULE Spec2Model ----------------------------
(***************************************************************************)
(* The indicator computation and time-series preparation code of the       *)
(* market backend (backend/app/utils) and the endpoints of its API         *)
(* (backend/main.py), as a state machine.                                  *)
(*                                                                         *)
(* A DataFrame is a record: its rows (the bars, one record per index       *)
(* entry), the dtype of its index, and the columns added to it after       *)
(* construction ('min', 'max', 'Returns').  A cell is a natural number or  *)
(* NA (a missing value).  A computed float is an exact rational or one of  *)
(* the IEEE special values NaN and +/-inf: numpy's rounding is not         *)
(* modelled, its treatment of x/0, 0/0 and of comparisons with NaN is.     *)
(*                                                                         *)
(* df is the frame the caller holds, ret the outcome of the last call.     *)
(* last_request_time and now are the rate limiter's global and the clock   *)
(* of the API process (main.py).                                           *)
(***************************************************************************)
EXTENDS Integers, Sequences, FiniteSets, TLC

VARIABLES df, ret, last_request_time, now

vars == <<df, ret, last_request_time, now>>

\* The state of the API process (main.py): the global last_request_time and
\* the clock time.time() reads, both in tenths of a second.  The functions
\* of backend/app/utils neither read nor change them.
server == <<last_request_time, now>>

\* The clock when the process starts.  last_request_time starts at 0 and
\* time.time() counts from 1970, so the first apply_rate_limit finds more
\* than RATE_LIMIT_DELAY elapsed.
Epoch == 10

ServerStart == last_request_time = 0 /\ now = Epoch

---------------------------------------------------------------------------
(* Bounds of the model.                                                    *)

\* Closing prices of a provider series are drawn from 1..MaxPrice.
MaxPrice == 8

---------------------------------------------------------------------------
(* float64 arithmetic: exact rationals n/d (d > 0, lowest terms), NaN, and *)
(* infinities (n is the sign).                                             *)

Abs(x) == IF x < 0 THEN 0 - x ELSE x

Sign(x) == IF x < 0 THEN 0 - 1 ELSE IF x > 0 THEN 1 ELSE 0

RECURSIVE GCD(_, _)
GCD(a, b) == IF b = 0 THEN a ELSE GCD(b, a % b)

NaN == [k |-> "nan", n |-> 0, d |-> 1]

Inf(s) == [k |-> "inf", n |-> s, d |-> 1]

F(n) == [k |-> "num", n |-> n, d |-> 1]

\* The float n/d, for d > 0.
Frac(n, d) ==
    LET g == GCD(Abs(n), d)
    IN  [k |-> "num", n |-> n \div g, d |-> d \div g]

IsNaN(x) == x.k = "nan"

IsNum(x) == x.k = "num"

FNeg(x) == IF IsNum(x) \/ x.k = "inf" THEN [x EXCEPT !.n = 0 - x.n] ELSE x

FAdd(x, y) ==
    IF IsNum(x) /\ IsNum(y) /\ x.d = 1 /\ y.d = 1 THEN F(x.n + y.n)
    ELSE IF IsNaN(x) \/ IsNaN(y) THEN NaN
    ELSE IF x.k = "inf" /\ y.k = "inf" THEN (IF x.n = y.n THEN x ELSE NaN)
    ELSE IF x.k = "inf" THEN x
    ELSE IF y.k = "inf" THEN y
    ELSE LET g == GCD(x.d, y.d)
         IN  Frac(x.n * (y.d \div g) + y.n * (x.d \div g), x.d * (y.d \div g))

FSub(x, y) == FAdd(x, FNeg(y))

FMul(x, y) ==
    IF IsNaN(x) \/ IsNaN(y) THEN NaN
    ELSE IF x.k = "inf" \/ y.k = "inf"
         THEN (IF x.n = 0 \/ y.n = 0 THEN NaN ELSE Inf(Sign(x.n) * Sign(y.n)))
    ELSE LET g1 == GCD(Abs(x.n), y.d)
             g2 == GCD(Abs(y.n), x.d)
         IN  Frac((x.n \div g1) * (y.n \div g2), (x.d \div g2) * (y.d \div g1))

\* x / y as numpy divides two float64: a nonzero number over zero is an
\* infinity and 0/0 is NaN, neither raises.  (A zero carries no sign here:
\* the sign of the infinity is that of the numerator.)
FDiv(x, y) ==
    IF IsNaN(x) \/ IsNaN(y) THEN NaN
    ELSE IF x.k = "inf" THEN (IF y.k = "inf" THEN NaN
                              ELSE Inf(IF y.n < 0 THEN 0 - x.n ELSE x.n))
    ELSE IF y.k = "inf" THEN F(0)
    ELSE IF y.n = 0 THEN (IF x.n = 0 THEN NaN ELSE Inf(Sign(x.n)))
    ELSE FMul(x, [k |-> "num", n |-> Sign(y.n) * y.d, d |-> Abs(y.n)])

\* x < y; False whenever either side is NaN.
FLt(x, y) ==
    IF IsNaN(x) \/ IsNaN(y) THEN FALSE
    ELSE IF x.k = "inf" THEN x.n < 0 /\ ~(y.k = "inf" /\ y.n < 0)
    ELSE IF y.k = "inf" THEN y.n > 0
    ELSE x.n * y.d < y.n * x.d

FGt(x, y) == FLt(y, x)

---------------------------------------------------------------------------
(* Frames.                                                                 *)

\* A missing cell (pandas' NaN in a column of a frame).
NA == -1

\* The float of a cell.
Cell(c) == IF c = NA THEN NaN ELSE F(c)

\* The columns every frame has.
BaseColumns == {"Open", "High", "Low", "Close", "Volume"}

\* One bar at timestamp (day) t, all five columns present.  A row also has a
\* place for each column the code may add; it counts only once the column is
\* among the frame's cols.
Bar(t, p, v) ==
    [ts |-> t, Open |-> p, High |-> p + 1, Low |-> p, Close |-> p, Volume |-> v,
     min |-> NA, max |-> NA, Returns |-> NaN]

\* A frame as the data provider or a reader hands it over: no added column.
Frame(dtype, rows) == [index_dtype |-> dtype, rows |-> rows, cols |-> {}]

\* data[name] as a sequence of cells.
Column(data, name) ==
    [i \in 1..Len(data.rows) |->
        CASE name = "Open"   -> data.rows[i].Open
          [] name = "High"   -> data.rows[i].High
          [] name = "Low"    -> data.rows[i].Low
          [] name = "Close"  -> data.rows[i].Close
          [] name = "Volume" -> data.rows[i].Volume
          [] name = "min"    -> data.rows[i].min
          [] name = "max"    -> data.rows[i].max]

RECURSIVE SumRange(_, _, _)
\* xs[lo] + ... + xs[hi] of a sequence of integers.
SumRange(xs, lo, hi) ==
    IF lo > hi THEN 0
    ELSE IF lo = hi THEN xs[lo]
    ELSE LET mid == (lo + hi) \div 2
         IN  SumRange(xs, lo, mid) + SumRange(xs, mid + 1, hi)

---------------------------------------------------------------------------
(* pandas Series operations used by the indicators.  A Series of floats is *)
(* a function on 1..n; n is passed along so that only the points read are  *)
(* computed.                                                               *)

\* Series.diff(): no value at the first point or next to a missing one.
Diff(xs, n) ==
    [i \in 1..n |->
        IF i = 1 THEN NaN ELSE FSub(Cell(xs[i]), Cell(xs[i - 1]))]

\* delta.where(delta > 0, 0): NaN > 0 is False, so a NaN becomes 0 too.
WhereGain(delta, n) ==
    [i \in 1..n |-> IF FGt(delta[i], F(0)) THEN delta[i] ELSE F(0)]

\* -delta.where(delta < 0, 0)
WhereLoss(delta, n) ==
    [i \in 1..n |-> FNeg(IF FLt(delta[i], F(0)) THEN delta[i] ELSE F(0))]

RECURSIVE FSum(_, _, _)
\* s[lo] + ... + s[hi], summed by halves.
FSum(s, lo, hi) ==
    IF lo > hi THEN F(0)
    ELSE IF lo = hi THEN s[lo]
    ELSE LET mid == (lo + hi) \div 2
         IN  FAdd(FSum(s, lo, mid), FSum(s, mid + 1, hi))

\* Series.rolling(window=w).mean(): min_periods is w, so there is no value
\* until w points are in the window, nor when one of them is missing.
RollingMean(s, n, w) ==
    [i \in 1..n |->
        IF i < w \/ \E j \in (i - w + 1)..i : IsNaN(s[j])
        THEN NaN
        ELSE FDiv(FSum(s, i - w + 1, i), F(w))]

\* One step of pandas' ewm(adjust=False) recursion, alpha = 2/(span+1):
\* st is [w |-> weighted, ow |-> old_wt], cur the next point.
EwmStep(st, cur, span) ==
    LET alpha  == Frac(2, span + 1)
        factor == Frac(span - 1, span + 1)
        ow     == FMul(st.ow, factor)
    IN  IF ~IsNaN(st.w)
        THEN IF ~IsNaN(cur)
             THEN [w  |-> IF st.w # cur
                          THEN FDiv(FAdd(FMul(ow, st.w), FMul(alpha, cur)),
                                    FAdd(ow, alpha))
                          ELSE st.w,
                   ow |-> F(1)]
             ELSE [w |-> st.w, ow |-> ow]
        ELSE IF ~IsNaN(cur) THEN [w |-> cur, ow |-> st.ow]
        ELSE st

RECURSIVE EwmRun(_, _, _, _, _)
\* The recursion run over s[lo..hi] from state st: the outputs and the state
\* it ends in.  (The range is split in halves; the steps run in order.)
EwmRun(s, span, st, lo, hi) ==
    IF lo = hi
    THEN LET st2 == EwmStep(st, s[lo], span)
         IN  [out |-> <<st2.w>>, st |-> st2]
    ELSE LET mid   == (lo + hi) \div 2
             left  == EwmRun(s, span, st, lo, mid)
             right == EwmRun(s, span, left.st, mid + 1, hi)
         IN  [out |-> left.out \o right.out, st |-> right.st]

\* Series.ewm(span=span, adjust=False).mean() of a Series of n >= 0 points:
\* the first output is the first point.
Ewm(s, n, span) ==
    IF n = 0 THEN <<>>
    ELSE IF n = 1 THEN <<s[1]>>
    ELSE <<s[1]>> \o EwmRun(s, span, [w |-> s[1], ow |-> F(1)], 2, n).out

---------------------------------------------------------------------------
(* indicators.py                                                           *)

\* rsi_signal with the overbought threshold included (>= 70).
rsi_signal_ge(current_rsi) ==
    IF ~FLt(current_rsi, F(70)) /\ ~IsNaN(current_rsi)
    THEN [signal |-> "bad",
          explanation |-> "RSI is overbought (>70), suggesting a potential sell signal."]
    ELSE IF FLt(current_rsi, F(30))
    THEN [signal |-> "good",
          explanation |-> "RSI is oversold (<30), suggesting a potential buy signal."]
    ELSE [signal |-> "warning",
          explanation |-> "RSI is in neutral territory (30-70)."]

\* The three-way test of calculate_rsi on the RSI of the last point.
rsi_signal(current_rsi) ==
    IF FGt(current_rsi, F(70))
    THEN [signal |-> "bad",
          explanation |-> "RSI is overbought (>70), suggesting a potential sell signal."]
    ELSE IF FLt(current_rsi, F(30))
    THEN [signal |-> "good",
          explanation |-> "RSI is oversold (<30), suggesting a potential buy signal."]
    ELSE [signal |-> "warning",
          explanation |-> "RSI is in neutral territory (30-70)."]

\* rs with a zero average loss replaced by a ratio of 0.
rs_guarded(gain, loss) == IF IsNum(loss) /\ loss.n = 0 THEN F(0) ELSE FDiv(gain, loss)

\* rs = gain / loss
rs_ratio(gain, loss) == FDiv(gain, loss)

\* rsi = 100 - (100 / (1 + rs)) as a Series.
rsi_series(data, period) ==
    LET n     == Len(data.rows)
        delta == Diff(Column(data, "Close"), n)
        gain  == RollingMean(WhereGain(delta, n), n, period)
        loss  == RollingMean(WhereLoss(delta, n), n, period)
    IN  [i \in 1..n |->
            FSub(F(100), FDiv(F(100), FAdd(F(1), rs_ratio(gain[i], loss[i]))))]

\* calculate_rsi(data, period): iloc[-1] of an empty Series raises.
calculate_rsi(data, period) ==
    LET n == Len(data.rows)
    IN  IF n = 0
        THEN [fn |-> "calculate_rsi", raised |-> "IndexError", value |-> NaN,
              signal |-> "", explanation |-> ""]
        ELSE LET current_rsi == rsi_series(data, period)[n]
                 tier        == rsi_signal(current_rsi)
             IN  [fn |-> "calculate_rsi", raised |-> "", value |-> current_rsi,
                  signal |-> tier.signal, explanation |-> tier.explanation]

\* The default of calculate_rsi's period.
RSI_PERIOD == 14

\* The windows of the two moving averages of detect_death_cross.
MA_SHORT == 50

MA_LONG == 200

\* The result of detect_death_cross for the comparison's outcome.
death_cross_signal(current_death_cross) ==
    IF current_death_cross
    THEN [value |-> TRUE, signal |-> "bad",
          explanation |-> "Death Cross detected (50-day MA below 200-day MA), indicating a bearish trend."]
    ELSE [value |-> FALSE, signal |-> "good",
          explanation |-> "No Death Cross detected (50-day MA above 200-day MA), indicating a bullish trend."]

\* The comparison with equal averages counted as a cross (<=).
death_cross_test_le(ma50, ma200, n) ==
    FLt(ma50[n], ma200[n]) \/ (IsNum(ma50[n]) /\ ma50[n] = ma200[n])

\* ma50.iloc[-1] < ma200.iloc[-1]
death_cross_test(ma50, ma200, n) == FLt(ma50[n], ma200[n])

\* detect_death_cross(data)
detect_death_cross(data) ==
    LET n     == Len(data.rows)
        close == [i \in 1..n |-> Cell(data.rows[i].Close)]
        ma50  == RollingMean(close, n, MA_SHORT)
        ma200 == RollingMean(close, n, MA_LONG)
    IN  IF n = 0
        THEN [fn |-> "detect_death_cross", raised |-> "IndexError", value |-> FALSE,
              signal |-> "", explanation |-> ""]
        ELSE LET r == death_cross_signal(death_cross_test(ma50, ma200, n))
             IN  [fn |-> "detect_death_cross", raised |-> "", value |-> r.value,
                  signal |-> r.signal, explanation |-> r.explanation]

\* The spans of calculate_macd's three exponential averages.
MACD_FAST == 12

MACD_SLOW == 26

MACD_SIGNAL == 9

\* macd_signal with the two momentum branches exchanged.
macd_signal_swapped(current_macd) ==
    IF FLt(current_macd, F(0))
    THEN [signal |-> "good",
          explanation |-> "MACD is above signal line, indicating bullish momentum."]
    ELSE IF FGt(current_macd, F(0))
    THEN [signal |-> "bad",
          explanation |-> "MACD is below signal line, indicating bearish momentum."]
    ELSE [signal |-> "warning",
          explanation |-> "MACD is at signal line, indicating neutral momentum."]

\* The three-way test of calculate_macd on MACD - Signal at the last point.
macd_signal(current_macd) ==
    IF FGt(current_macd, F(0))
    THEN [signal |-> "good",
          explanation |-> "MACD is above signal line, indicating bullish momentum."]
    ELSE IF FLt(current_macd, F(0))
    THEN [signal |-> "bad",
          explanation |-> "MACD is below signal line, indicating bearish momentum."]
    ELSE [signal |-> "warning",
          explanation |-> "MACD is at signal line, indicating neutral momentum."]

\* macd = exp1 - exp2 and signal = macd.ewm(span=9), as Series of n points.
macd_lines(data) ==
    LET n     == Len(data.rows)
        close == [i \in 1..n |-> Cell(data.rows[i].Close)]
        exp1  == Ewm(close, n, MACD_FAST)
        exp2  == Ewm(close, n, MACD_SLOW)
        macd  == [i \in 1..n |-> FSub(exp1[i], exp2[i])]
    IN  [macd |-> macd, signal |-> Ewm(macd, n, MACD_SIGNAL)]

\* calculate_macd(data)
calculate_macd(data) ==
    LET n == Len(data.rows)
    IN  IF n = 0
        THEN [fn |-> "calculate_macd", raised |-> "IndexError", value |-> NaN,
              signal |-> "", explanation |-> ""]
        ELSE LET lines        == macd_lines(data)
                 current_macd == FSub(lines.macd[n], lines.signal[n])
                 tier         == macd_signal(current_macd)
             IN  [fn |-> "calculate_macd", raised |-> "", value |-> current_macd,
                  signal |-> tier.signal, explanation |-> tier.explanation]

---------------------------------------------------------------------------
(* The series the indicators are applied to: what Ticker.history returns   *)
(* in get_indicators.  A series of n daily bars holds one closing price up *)
(* to its last two bars, which are free: an RSI of 0, 30, 70, 100 and of   *)
(* values between, and both orders of the two moving averages, occur.      *)

\* Numbers of bars: none, around the RSI window, around the 200-bar window.
SeriesLengths == {0, 1, 13, 14, 15, 199, 200}

ProviderSeries(n, a, b, c) ==
    [i \in 1..n |-> Bar(i, IF i = n THEN c ELSE IF i = n - 1 THEN b ELSE a, 1)]

ProviderFrames ==
    { Frame("datetime64", ProviderSeries(n, a, b, c)) :
        n \in SeriesLengths, a \in 1..MaxPrice, b \in 1..MaxPrice, c \in 1..MaxPrice }

NoCall == [fn |-> "none"]

InitSignals == df \in ProviderFrames /\ ret = NoCall /\ ServerStart

CalculateRsi ==
    /\ ret' = calculate_rsi(df, RSI_PERIOD)
    /\ UNCHANGED <<df, server>>

DetectDeathCross ==
    /\ ret' = detect_death_cross(df)
    /\ UNCHANGED <<df, server>>

CalculateMacd ==
    /\ ret' = calculate_macd(df)
    /\ UNCHANGED <<df, server>>

NextSignals == CalculateRsi \/ DetectDeathCross \/ CalculateMacd

SpecSignals == InitSignals /\ [][NextSignals]_vars

---------------------------------------------------------------------------
(* technical_analysis.py                                                   *)

\* The smallest (least = TRUE) or largest member of a non-empty set of
\* integers.
Extreme(S, least) ==
    CHOOSE m \in S : \A y \in S : IF least THEN m <= y ELSE m >= y

\* Series.rolling(window=w, center=True).min() / .max() of a column of cells:
\* the window of point i is i + offset - w + 1 .. i + offset with
\* offset = (w - 1) // 2, cut at the ends of the series; min_periods is w, so
\* there is no value when the window is cut or holds a missing cell.
RollingCenter(xs, n, w, least) ==
    [i \in 1..n |->
        LET offset == (w - 1) \div 2
            lo     == IF i + offset - w + 1 < 1 THEN 1 ELSE i + offset - w + 1
            hi     == IF i + offset > n THEN n ELSE i + offset
            vals   == {xs[j] : j \in lo..hi}
        IN  IF hi - lo + 1 < w \/ NA \in vals THEN NA ELSE Extreme(vals, least)]

RECURSIVE Masked(_, _, _, _)
\* df[df[a] == df[b]][a] over the rows lo..hi: the cells of xs that equal
\* those of ys, in order (a missing cell equals nothing).
Masked(xs, ys, lo, hi) ==
    IF lo > hi THEN <<>>
    ELSE IF lo = hi
    THEN (IF xs[lo] # NA /\ ys[lo] # NA /\ xs[lo] = ys[lo] THEN <<xs[lo]>> ELSE <<>>)
    ELSE LET mid == (lo + hi) \div 2
         IN  Masked(xs, ys, lo, mid) \o Masked(xs, ys, mid + 1, hi)

Range(l) == {l[i] : i \in 1..Len(l)}

RECURSIVE Unique(_)
\* Series.unique(): each value once, in order of first appearance.
Unique(l) ==
    IF Len(l) <= 1 THEN l
    ELSE LET mid   == Len(l) \div 2
             left  == Unique(SubSeq(l, 1, mid))
             right == Unique(SubSeq(l, mid + 1, Len(l)))
         IN  left \o SelectSeq(right, LAMBDA x : x \notin Range(left))

RECURSIVE Insert(_, _)
\* x put into the ascending list l, after the elements equal to it.
Insert(l, x) ==
    IF l = <<>> THEN <<x>>
    ELSE IF x < Head(l) THEN <<x>> \o l
    ELSE <<Head(l)>> \o Insert(Tail(l), x)

RECURSIVE Sorted(_)
\* sorted(l): ascending.
Sorted(l) == IF l = <<>> THEN <<>> ELSE Insert(Sorted(SubSeq(l, 1, Len(l) - 1)), l[Len(l)])

\* l[-3:]
LastThree(l) == SubSeq(l, IF Len(l) > 3 THEN Len(l) - 2 ELSE 1, Len(l))

\* l[:3]
FirstThree(l) == SubSeq(l, 1, IF Len(l) > 3 THEN 3 ELSE Len(l))

\* The support levels cut at the other end of the list: the three lowest.
support_selection_lowest(support_levels) == FirstThree(Sorted(support_levels))

\* sorted(support_levels)[-3:]
support_selection(support_levels) == LastThree(Sorted(support_levels))

\* sorted(resistance_levels)[:3]
resistance_selection(resistance_levels) == FirstThree(Sorted(resistance_levels))

\* calculate_support_resistance(df, window): the frame with its 'min' and
\* 'max' columns set, and the dictionary returned.
calculate_support_resistance(data, window) ==
    LET n    == Len(data.rows)
        low  == Column(data, "Low")
        high == Column(data, "High")
        mn   == RollingCenter(low, n, window, TRUE)
        mx   == RollingCenter(high, n, window, FALSE)
        support_levels    == Unique(Masked(low, mn, 1, n))
        resistance_levels == Unique(Masked(high, mx, 1, n))
    IN  [df  |-> [data EXCEPT
                    !.rows = [i \in 1..n |-> [data.rows[i] EXCEPT !.min = mn[i], !.max = mx[i]]],
                    !.cols = @ \cup {"min", "max"}],
         ret |-> [fn |-> "calculate_support_resistance", raised |-> "", window |-> window,
                  support    |-> support_selection(support_levels),
                  resistance |-> resistance_selection(resistance_levels)]]

\* The default of calculate_support_resistance's window.
SR_WINDOW == 20

---------------------------------------------------------------------------
(* The series support and resistance levels are looked for in: blocks of   *)
(* bars at one price each, so that up to LevelBlocks distinct levels occur *)
(* on either side, with windows that fit in a block and that do not.       *)

\* Prices of a block are drawn from 1..MaxLevel.
MaxLevel == 5

\* Bars per block.
BlockLengths == {10, 20}

\* Windows passed to calculate_support_resistance: the default and a short one.
Windows == {3, SR_WINDOW}

LevelSeries(len, p1, p2, p3, p4) ==
    [i \in 1..(4 * len) |->
        Bar(i, IF i <= len THEN p1 ELSE IF i <= 2 * len THEN p2
               ELSE IF i <= 3 * len THEN p3 ELSE p4, 1)]

LevelFrames ==
    { Frame("datetime64", LevelSeries(len, p1, p2, p3, p4)) :
        len \in BlockLengths, p1 \in 1..MaxLevel, p2 \in 1..MaxLevel,
        p3 \in 1..MaxLevel, p4 \in 1..MaxLevel }

InitLevels == df \in LevelFrames /\ ret = NoCall /\ ServerStart

\* A call of calculate_support_resistance on the caller's frame, which it
\* changes in place.
CalculateSupportResistance ==
    \E window \in Windows :
        LET r == calculate_support_resistance(df, window)
        IN  df' = r.df /\ ret' = r.ret /\ UNCHANGED server

NextLevels == CalculateSupportResistance

SpecLevels == InitLevels /\ [][NextLevels]_vars

---------------------------------------------------------------------------
(* data_processor.py                                                       *)

\* No cell of the row is missing, in the base columns and in the added ones
\* the frame has.
Complete(row, cols) ==
    /\ row.Open # NA /\ row.High # NA /\ row.Low # NA
    /\ row.Close # NA /\ row.Volume # NA
    /\ ("min" \in cols => row.min # NA)
    /\ ("max" \in cols => row.max # NA)
    /\ ("Returns" \in cols => ~IsNaN(row.Returns))

\* df.dropna(): the rows without a missing value, in order.
dropna(data) ==
    [data EXCEPT !.rows = SelectSeq(data.rows, LAMBDA row : Complete(row, data.cols))]

\* pd.to_datetime(df.index): an index of date strings becomes one of
\* timestamps; the day each entry stands for is kept.
to_datetime(dtype) == IF dtype = "object" THEN "datetime64" ELSE dtype

\* Index.is_monotonic_increasing
IsMonotonic(rows) == \A i \in 1..(Len(rows) - 1) : rows[i].ts <= rows[i + 1].ts

\* df.sort_index(): a frame whose index is ascending already is returned as
\* it is; otherwise the rows are put in ascending order of the index by a
\* sort that is not stable, so rows of one timestamp may come in any order.
sort_index(rows) ==
    IF IsMonotonic(rows) THEN {rows}
    ELSE LET n     == Len(rows)
             perms == {q \in [1..n -> 1..n] : \A i, j \in 1..n : q[i] = q[j] => i = j}
         IN  {r \in {[i \in 1..n |-> rows[q[i]]] : q \in perms} : IsMonotonic(r)}

\* clean_stock_data(df): the frames it may return.  It raises nothing.
clean_stock_data(data) ==
    LET dropped == dropna(data)
    IN  {[dropped EXCEPT !.index_dtype = to_datetime(@), !.rows = r] :
            r \in sort_index(dropped.rows)}

\* Series.pct_change() of the closes of a frame without missing closes.
pct_change(close, n) ==
    [i \in 1..n |->
        IF i = 1 THEN NaN ELSE FSub(FDiv(F(close[i]), F(close[i - 1])), F(1))]

\* Series.mean() over the points lo..hi of s (the ones that have a value).
Mean(s, lo, hi) == IF lo > hi THEN NaN ELSE FDiv(FSum(s, lo, hi), F(hi - lo + 1))

\* The square of Series.std() (ddof = 1) over the points lo..hi of s: the
\* sample variance, NaN for fewer than two points.  (The standard deviation
\* is its square root; it is 0 or NaN exactly when this is.)
Variance(s, lo, hi) ==
    IF hi - lo + 1 < 2 THEN NaN
    ELSE LET mean == Mean(s, lo, hi)
             sq   == [i \in lo..hi |-> FMul(FSub(s[i], mean), FSub(s[i], mean))]
         IN  FDiv(FSum(sq, lo, hi), F(hi - lo))

\* prepare_data_for_analysis(df): the frame with its 'Returns' column set,
\* and the statistics returned; df['Close'].iloc[-1] raises on an empty
\* frame, after the column was set.
prepare_data_for_analysis(data) ==
    LET n       == Len(data.rows)
        returns == pct_change(Column(data, "Close"), n)
        frame   == [data EXCEPT
                      !.rows = [i \in 1..n |-> [data.rows[i] EXCEPT !.Returns = returns[i]]],
                      !.cols = @ \cup {"Returns"}]
        cells(name) == [i \in 1..n |-> F(Column(data, name)[i])]
    IN  IF n = 0
        THEN [df |-> frame,
              ret |-> [fn |-> "prepare_data_for_analysis", raised |-> "IndexError"]]
        ELSE [df |-> frame,
              ret |-> [fn |-> "prepare_data_for_analysis", raised |-> "",
                       mean_return   |-> Mean(returns, 2, n),
                       std_dev_sq    |-> Variance(returns, 2, n),
                       min_price     |-> F(Extreme({data.rows[i].Low : i \in 1..n}, TRUE)),
                       max_price     |-> F(Extreme({data.rows[i].High : i \in 1..n}, FALSE)),
                       current_price |-> F(data.rows[n].Close),
                       volume_avg    |-> Mean(cells("Volume"), 1, n)]]

---------------------------------------------------------------------------
(* The raw frames the preparation functions are given: a few bars, some    *)
(* with a missing close or volume, with timestamps in any order and        *)
(* possibly repeated, the index read as date strings or as timestamps.     *)

\* Bars of a raw frame.
MaxRows == 3

\* Closing prices of a raw frame are drawn from 1..MaxClose.
MaxClose == 2

\* Days of the raw bars: two of one week and one of the next.
Days == {1, 2, 8}

RawBar(t, p, missing) ==
    [Bar(t, p, 10 * p) EXCEPT
        !.Close  = IF missing = "Close" THEN NA ELSE @,
        !.Volume = IF missing = "Volume" THEN NA ELSE @]

RawBars ==
    {RawBar(t, p, missing) :
        t \in Days, p \in 1..MaxClose, missing \in {"", "Close", "Volume"}}

RawFrames ==
    {Frame(dtype, rows) :
        dtype \in {"object", "datetime64"},
        rows \in UNION {[1..n -> RawBars] : n \in 0..MaxRows}}

\* The frame has no missing value in its base columns (what the docstring
\* of prepare_data_for_analysis asks of its argument: cleaned data).
NoMissing(data) == \A i \in 1..Len(data.rows) : Complete(data.rows[i], {})

Init == df \in RawFrames /\ ret = NoCall /\ ServerStart

\* df = clean_stock_data(df): the caller goes on with the frame returned.
CleanStockData ==
    /\ df' \in clean_stock_data(df)
    /\ ret' = [fn |-> "clean_stock_data", raised |-> ""]
    /\ UNCHANGED server

\* A call of prepare_data_for_analysis on the caller's frame, which it
\* changes in place.
PrepareDataForAnalysis ==
    /\ NoMissing(df)
    /\ LET r == prepare_data_for_analysis(df)
       IN  df' = r.df /\ ret' = r.ret
    /\ UNCHANGED server

Next == CleanStockData \/ PrepareDataForAnalysis \/ CalculateSupportResistance

Spec == Init /\ [][Next]_vars

---------------------------------------------------------------------------
(* data_processor.py: detect_outliers and resample_data.                   *)

\* The frame has a column of this name (df[name] raises KeyError if not).
HasColumn(data, name) == name \in BaseColumns \cup data.cols

\* df[name] as a Series of floats, a missing cell being NaN.
FloatColumn(data, name) ==
    [i \in 1..Len(data.rows) |->
        IF name = "Returns" THEN data.rows[i].Returns
        ELSE Cell(Column(data, name)[i])]

\* The points of s[1..n] that have a value (what mean, std and sum keep:
\* skipna is True).
Valid(s, n) == {i \in 1..n : ~IsNaN(s[i])}

\* s[1] + ... + s[n] without the points that have no value.
SkipnaSum(s, n) == FSum([i \in 1..n |-> IF IsNaN(s[i]) THEN F(0) ELSE s[i]], 1, n)

\* Series.mean(): NaN when no point has a value.
SkipnaMean(s, n) ==
    IF Valid(s, n) = {} THEN NaN
    ELSE FDiv(SkipnaSum(s, n), F(Cardinality(Valid(s, n))))

\* The square of Series.std() (ddof = 1): NaN for fewer than two values.
SkipnaVariance(s, n) ==
    LET count == Cardinality(Valid(s, n))
        mean  == SkipnaMean(s, n)
        sq    == [i \in 1..n |-> FMul(FSub(s[i], mean), FSub(s[i], mean))]
    IN  IF count < 2 THEN NaN ELSE FDiv(SkipnaSum(sq, n), F(count - 1))

\* The test of a point written as not (z <= threshold), which a point
\* without z-score passes.
z_score_not_within(x, mean, var, threshold) ==
    LET dev == FSub(x, mean)
    IN  IF IsNaN(dev) \/ IsNaN(var) THEN TRUE
        ELSE IF var.n = 0 THEN TRUE
        ELSE IF threshold < 0 THEN TRUE
        ELSE FGt(FMul(dev, dev), FMul(F(threshold * threshold), var))

\* np.abs((x - mean) / std) > threshold for one point x, std being given by
\* its square var.  With std = 0 the quotient is 0/0 = NaN where x is the
\* mean and an infinity elsewhere; NaN > threshold is False.  For a number
\* z >= 0 and threshold >= 0, z > threshold iff (x - mean)^2 > threshold^2 var.
z_score_exceeds(x, mean, var, threshold) ==
    LET dev == FSub(x, mean)
    IN  IF IsNaN(dev) \/ IsNaN(var) THEN FALSE
        ELSE IF var.n = 0 THEN dev.n # 0
        ELSE IF threshold < 0 THEN TRUE
        ELSE FGt(FMul(dev, dev), FMul(F(threshold * threshold), var))

\* detect_outliers(df, column, threshold): the index entries of the rows
\* whose z-score exceeds the threshold, in order.  df[column] raises KeyError
\* for a name that is no column; nothing in the function catches it.
detect_outliers(data, column, threshold) ==
    IF ~HasColumn(data, column)
    THEN [fn |-> "detect_outliers", raised |-> "KeyError",
          column |-> column, threshold |-> threshold, value |-> <<>>]
    ELSE LET n    == Len(data.rows)
             s    == FloatColumn(data, column)
             mean == SkipnaMean(s, n)
             var  == SkipnaVariance(s, n)
             hits == SelectSeq([i \in 1..n |-> i],
                               LAMBDA i : z_score_exceeds(s[i], mean, var, threshold))
         IN  [fn |-> "detect_outliers", raised |-> "",
              column |-> column, threshold |-> threshold,
              value |-> [j \in 1..Len(hits) |-> data.rows[hits[j]].ts]]

\* The length in days of the period of a frequency: 'D' and 'W'.  (Day 1 is
\* a Monday; 'M' needs a calendar and is not modelled.)
Period(freq) == IF freq = "W" THEN 7 ELSE 1

\* The label of the bucket of day t: the day itself, or the Sunday that ends
\* its week.
Bucket(t, freq) == ((t + Period(freq) - 1) \div Period(freq)) * Period(freq)

\* 'first' taken for 'last'.
agg_last_as_first(cells) ==
    LET present == SelectSeq(cells, LAMBDA c : c # NA)
    IN  IF present = <<>> THEN NA ELSE present[1]

\* 'first': the first cell of the bucket that is not missing, or none.
agg_first(cells) ==
    LET present == SelectSeq(cells, LAMBDA c : c # NA)
    IN  IF present = <<>> THEN NA ELSE present[1]

\* 'last': the last cell of the bucket that is not missing, or none.
agg_last(cells) ==
    LET present == SelectSeq(cells, LAMBDA c : c # NA)
    IN  IF present = <<>> THEN NA ELSE present[Len(present)]

\* 'max' / 'min' over the cells that are not missing, or none.
agg_extreme(cells, least) ==
    LET present == Range(cells) \ {NA}
    IN  IF present = {} THEN NA ELSE Extreme(present, least)

\* 'sum' of cells: missing cells are skipped, no cell at all gives 0.
agg_sum(cells) ==
    SumRange([i \in 1..Len(cells) |-> IF cells[i] = NA THEN 0 ELSE cells[i]],
             1, Len(cells))

\* df.resample(freq).agg({...}) of a frame whose index is ascending: one row
\* per period from that of the first bar to that of the last, the periods
\* without a bar included.  resample raises TypeError on an index that is
\* not a DatetimeIndex, agg raises KeyError when a column it names ('Returns'
\* is one) is not in the frame.
resample_data(data, freq) ==
    LET n      == Len(data.rows)
        first  == Bucket(data.rows[1].ts, freq)
        last   == Bucket(data.rows[n].ts, freq)
        count  == IF n = 0 THEN 0 ELSE ((last - first) \div Period(freq)) + 1
        label(b) == first + (b - 1) * Period(freq)
        in(b)  == SelectSeq(data.rows, LAMBDA row : Bucket(row.ts, freq) = label(b))
        col(b, name) == Column([rows |-> in(b)], name)
        rets(b) == [i \in 1..Len(in(b)) |-> in(b)[i].Returns]
    IN  IF data.index_dtype # "datetime64"
        THEN [fn |-> "resample_data", raised |-> "TypeError", freq |-> freq]
        ELSE IF "Returns" \notin data.cols
        THEN [fn |-> "resample_data", raised |-> "KeyError", freq |-> freq]
        ELSE [fn |-> "resample_data", raised |-> "", freq |-> freq,
              value |->
                [index_dtype |-> "datetime64",
                 cols |-> {"Returns"},
                 rows |-> [b \in 1..count |->
                    [ts      |-> label(b),
                     Open    |-> agg_first(col(b, "Open")),
                     High    |-> agg_extreme(col(b, "High"), FALSE),
                     Low     |-> agg_extreme(col(b, "Low"), TRUE),
                     Close   |-> agg_last(col(b, "Close")),
                     Volume  |-> agg_sum(col(b, "Volume")),
                     min     |-> NA,
                     max     |-> NA,
                     Returns |-> SkipnaSum(rets(b), Len(in(b)))]]]]

---------------------------------------------------------------------------
(* The frames the outlier detection and the resampling are given: daily    *)
(* bars in ascending order of their days, some with a missing close or     *)
(* volume, over three weeks of which the second has no bar.                *)

\* Days of the daily bars: a Monday, the Tuesday after, the second Monday
\* after that.
SampleDays == {1, 2, 15}

\* Names asked of detect_outliers: 'Returns' is a column only after
\* prepare_data_for_analysis, 'Adj Close' never is.
ColumnNames == {"Close", "Volume", "Returns", "Adj Close"}

\* Thresholds asked of detect_outliers; 3 is the default.
Thresholds == {-1, 0, 1, 3}

Frequencies == {"D", "W"}

DailyBars ==
    {RawBar(t, p, missing) :
        t \in SampleDays, p \in 1..MaxClose, missing \in {"", "Close", "Volume"}}

DailyFrames ==
    {Frame(dtype, rows) :
        dtype \in {"object", "datetime64"},
        rows \in {r \in UNION {[1..n -> DailyBars] : n \in 0..Cardinality(SampleDays)} :
                    \A i \in 1..(Len(r) - 1) : r[i].ts < r[i + 1].ts}}

InitProcessor == df \in DailyFrames /\ ret = NoCall /\ ServerStart

\* A call of detect_outliers on the caller's frame.
DetectOutliers ==
    \E column \in ColumnNames, threshold \in Thresholds :
        /\ ret' = detect_outliers(df, column, threshold)
        /\ UNCHANGED <<df, server>>

\* A call of resample_data on the caller's frame.
ResampleData ==
    \E freq \in Frequencies :
        /\ ret' = resample_data(df, freq)
        /\ UNCHANGED <<df, server>>

NextProcessor ==
    CleanStockData \/ PrepareDataForAnalysis \/ DetectOutliers \/ ResampleData

SpecProcessor == InitProcessor /\ [][NextProcessor]_vars

---------------------------------------------------------------------------
(* main.py: the rate limiter and the three endpoints.  A handler is an     *)
(* async function without an await, so it runs from its first line to its  *)
(* response before another request is served.  st is what a handler        *)
(* carries along: the clock, last_request_time, and the log of what it did *)
(* (its calls of apply_rate_limit, its calls to the data provider, the     *)
(* HTTPExceptions it raised), each with its time.                          *)

\* RATE_LIMIT_DELAY = 0.5 seconds, in tenths of a second.
RATE_LIMIT_DELAY == 5

\* datetime.now(), as a day.
Today == 5

\* No request starts after this time.
MaxClock == Epoch + 2

\* A call to the data provider takes 0..MaxLatency tenths of a second.
MaxLatency == 1

\* random.uniform(0.1, 0.2), in tenths of a second.
Jitters == {1, 2}

Event(ev, at, code) == [ev |-> ev, at |-> at, code |-> code]

\* The calls that send a request to the data provider.
ProviderCalls == {"history", "fast_info", "info", "download"}

\* apply_rate_limit(): sleeps when less than RATE_LIMIT_DELAY has elapsed
\* since last_request_time, then sets last_request_time to the clock.
apply_rate_limit(st, jitter) ==
    LET elapsed == st.now - st.last_request_time
        woke    == IF elapsed < RATE_LIMIT_DELAY
                   THEN st.now + (RATE_LIMIT_DELAY - elapsed) + jitter
                   ELSE st.now
    IN  [now |-> woke, last_request_time |-> woke,
         log |-> Append(st.log, Event("apply_rate_limit", woke, 0))]

\* A call to the data provider (yfinance), sent at st.now, which returns or
\* raises after latency.
provider_call(st, api, latency) ==
    [st EXCEPT !.log = Append(@, Event(api, st.now, 0)), !.now = @ + latency]

\* raise HTTPException(status_code=code, ...)
raise_http(st, code) ==
    [st EXCEPT !.log = Append(@, Event("HTTPException", st.now, code))]

\* is_valid_stock_symbol(symbol): True only when the one-day history has a
\* row with a close; an empty frame, a NaN close and every exception give
\* False.  (The branch for HTTP 429 is not taken: a Response of status 429
\* is falsy, so 'e.response and ...' is.)
is_valid_stock_symbol(st, env) ==
    [st |-> provider_call(apply_rate_limit(st, env.jitter), "history", env.latency),
     ok |-> env.valid = "data"]

\* search_stock(symbol): the status of the response.
search_stock(st, env) ==
    LET s1 == apply_rate_limit(st, env.jitter)
        s2 == provider_call(s1, "fast_info", env.latency)
        s3 == provider_call(s2, "info", env.latency)
    IN  CASE env.fast = "data" -> [st |-> s3, status |-> 200]
          [] env.fast \in {"empty", "AttributeError"} ->
                [st |-> raise_http(s2, 404), status |-> 404]
          [] OTHER -> [st |-> raise_http(s2, 500), status |-> 500]

\* A query parameter that was not given, one that is no date, one that is
\* the date of day d.
NoDate == [given |-> FALSE, parses |-> FALSE, day |-> 0]

BadDate == [given |-> TRUE, parses |-> FALSE, day |-> 0]

Date(d) == [given |-> TRUE, parses |-> TRUE, day |-> d]

\* 'if start_date and end_date'
BothDates(req) == req.start_date.given /\ req.end_date.given

\* pd.to_datetime raises ValueError on one of the two.
DateUnparsed(req) ==
    BothDates(req) /\ ~(req.start_date.parses /\ req.end_date.parses)

\* 'if start > end' or 'if end > datetime.now()'
DateCheckFails(req) ==
    /\ BothDates(req) /\ ~DateUnparsed(req)
    /\ (req.start_date.day > req.end_date.day \/ req.end_date.day > Today)

\* get_stock_analysis(symbol, start_date, end_date, period): the status of
\* the response.  The HTTPException(400) of the date check is raised inside
\* the inner try, whose 'except Exception' takes it for a failed fetch and
\* goes on with yf.download.
get_stock_analysis(st, req, env) ==
    LET s1 == apply_rate_limit(st, env.jitter)
        v  == is_valid_stock_symbol(s1, env)
        download(s) == [st |-> provider_call(s, "download", env.latency), out |-> env.dl]
        history == provider_call(v.st, "history", env.latency)
        fetch ==
            IF DateUnparsed(req) THEN [st |-> raise_http(v.st, 400), out |-> "HTTPException"]
            ELSE IF DateCheckFails(req) THEN download(raise_http(v.st, 400))
            ELSE IF env.hist = "ValueError"
                 THEN [st |-> raise_http(history, 400), out |-> "HTTPException"]
            ELSE IF env.hist = "Exception" THEN download(history)
            ELSE [st |-> history, out |-> env.hist]
    IN  IF ~v.ok THEN [st |-> raise_http(v.st, 404), status |-> 404]
        ELSE CASE fetch.out = "HTTPException" -> [st |-> fetch.st, status |-> 400]
               [] fetch.out = "empty" -> [st |-> raise_http(fetch.st, 404), status |-> 404]
               [] fetch.out = "data" /\ env.ta = "ok" -> [st |-> fetch.st, status |-> 200]
               [] OTHER -> [st |-> raise_http(fetch.st, 500), status |-> 500]

\* get_indicators(symbol, ...) of indicators.py: it fetches the history
\* itself; an empty frame and every exception come out as ValueError.
get_indicators(st, env) ==
    [st  |-> provider_call(st, "history", env.latency),
     out |-> IF env.hist = "data" THEN "ok" ELSE "ValueError"]

\* get_stock_indicators(symbol, start_date, end_date, period): the status
\* of the response.  Every HTTPException of the body is raised inside the
\* outer try, which has no 'except HTTPException' clause: 'except Exception'
\* takes it and raises HTTPException(500).
get_stock_indicators(st, req, env) ==
    LET v == is_valid_stock_symbol(st, env)
        g == get_indicators(v.st, env)
        failed(s) == [st |-> raise_http(s, 500), status |-> 500]
    IN  IF ~v.ok THEN failed(raise_http(v.st, 404))
        ELSE IF DateUnparsed(req) \/ DateCheckFails(req) THEN failed(raise_http(v.st, 400))
        ELSE IF g.out = "ValueError" THEN failed(raise_http(g.st, 400))
        ELSE [st |-> g.st, status |-> 200]

---------------------------------------------------------------------------
(* The requests the API process serves and what the data provider does     *)
(* with each call.                                                         *)

\* The days of the query parameters: two in the past, one in the future.
RequestDays == {1, 2, Today + 1}

DateParams == {NoDate, BadDate} \cup {Date(d) : d \in RequestDays}

Requests == [start_date : DateParams, end_date : DateParams]

\* What history(period="1d") does in is_valid_stock_symbol.
ValidationOutcomes == {"data", "empty", "nan", "Exception"}

\* What fast_info does in search_stock.
FastInfoOutcomes == {"data", "empty", "AttributeError", "Exception"}

\* What history does in get_stock_analysis and in get_indicators.
HistoryOutcomes == {"data", "empty", "ValueError", "Exception"}

\* What yf.download does in get_stock_analysis.
DownloadOutcomes == {"data", "empty", "Exception"}

\* Whether the indicator classes of the ta library raise.
TaOutcomes == {"ok", "Exception"}

Latencies == 0..MaxLatency

InitServer == df = Frame("datetime64", <<>>) /\ ret = NoCall /\ ServerStart

\* What a handler starts from.
Entry == [now |-> now, last_request_time |-> last_request_time, log |-> <<>>]

\* The process after a handler has answered.
Answered(r, fn, req, valid) ==
    /\ now' = r.st.now
    /\ last_request_time' = r.st.last_request_time
    /\ ret' = [fn |-> fn, raised |-> "", status |-> r.status, log |-> r.st.log,
               start_date |-> req.start_date, end_date |-> req.end_date,
               valid |-> valid]
    /\ UNCHANGED df

\* GET /search/{symbol}
SearchStock ==
    /\ now <= MaxClock
    /\ \E jitter \in Jitters, latency \in Latencies, fast \in FastInfoOutcomes :
         LET env == [jitter |-> jitter, latency |-> latency, fast |-> fast]
         IN  Answered(search_stock(Entry, env), "search_stock",
                      [start_date |-> NoDate, end_date |-> NoDate], fast = "data")

\* GET /analysis/{symbol}
GetStockAnalysis ==
    /\ now <= MaxClock
    /\ \E req \in Requests, jitter \in Jitters, latency \in Latencies,
          valid \in ValidationOutcomes, hist \in HistoryOutcomes,
          dl \in DownloadOutcomes, ta \in TaOutcomes :
         LET env == [jitter |-> jitter, latency |-> latency, valid |-> valid,
                     hist |-> hist, dl |-> dl, ta |-> ta]
         IN  Answered(get_stock_analysis(Entry, req, env), "get_stock_analysis",
                      req, valid = "data")

\* GET /indicators/{symbol}
GetStockIndicators ==
    /\ now <= MaxClock
    /\ \E req \in Requests, jitter \in Jitters, latency \in Latencies,
          valid \in ValidationOutcomes, hist \in HistoryOutcomes :
         LET env == [jitter |-> jitter, latency |-> latency, valid |-> valid,
                     hist |-> hist]
         IN  Answered(get_stock_indicators(Entry, req, env), "get_stock_indicators",
                      req, valid = "data")

\* Time passes while no request is being served.
Tick ==
    /\ now < MaxClock
    /\ now' = now + 1
    /\ UNCHANGED <<df, ret, last_request_time>>

NextServer == SearchStock \/ GetStockAnalysis \/ GetStockIndicators \/ Tick

SpecServer == InitServer /\ [][NextServer]_vars

---------------------------------------------------------------------------
(* Properties of the indicators (SpecSignals).  They restate the results   *)
(* from the closing prices themselves, as integers.                        *)

Closes == [i \in 1..Len(df.rows) |-> df.rows[i].Close]

NBars == Len(df.rows)

\* The sum of the rises (up = TRUE) or of the falls among the last RSI_PERIOD
\* price changes; the first bar has no change.
MoveSum(up) ==
    LET lo == IF NBars - RSI_PERIOD + 1 < 2 THEN 2 ELSE NBars - RSI_PERIOD + 1
        move(i) == IF up THEN Closes[i] - Closes[i - 1] ELSE Closes[i - 1] - Closes[i]
        pos  == [i \in 1..NBars |-> IF i >= lo /\ move(i) > 0 THEN move(i) ELSE 0]
    IN  SumRange(pos, lo, NBars)

\* v > t and v < t for a float v and an integer t.
Above(v, t) == (v.k = "inf" /\ v.n > 0) \/ (v.k = "num" /\ v.n > t * v.d)

Below(v, t) == (v.k = "inf" /\ v.n < 0) \/ (v.k = "num" /\ v.n < t * v.d)

RsiCalled == ret.fn = "calculate_rsi" /\ ret.raised = ""

\* The RSI of the last point, from the sums of rises G and falls L:
\* 100 G / (G + L), 100 when only L is 0, no value when both are or when
\* fewer than RSI_PERIOD bars exist.
ExpectedRsi ==
    LET G == MoveSum(TRUE)
        L == MoveSum(FALSE)
    IN  IF NBars < RSI_PERIOD \/ (G = 0 /\ L = 0) THEN NaN
        ELSE IF L = 0 THEN F(100)
        ELSE Frac(100 * G, G + L)

\* C1: calculate_rsi returns the RSI of the last point of the series and
\* classifies it with fixed thresholds: 'bad' exactly when it is > 70, 'good'
\* exactly when it is < 30, 'warning' for every other value, 70 and 30 (and
\* no value) included.
C1_RsiTierByThreshold ==
    RsiCalled =>
        /\ ret.value = ExpectedRsi
        /\ (ret.signal = "bad") <=> Above(ret.value, 70)
        /\ (ret.signal = "good") <=> Below(ret.value, 30)
        /\ (ret.signal = "warning") <=> (~Above(ret.value, 70) /\ ~Below(ret.value, 30))

\* C1 witness: an RSI of exactly 70 was classified, as 'warning'.
C1_Witness == RsiCalled /\ ret.value = F(70) /\ ret.signal = "warning"

MacdCalled == ret.fn = "calculate_macd" /\ ret.raised = ""

\* C2: the value calculate_macd returns is MACD - Signal at the last point,
\* and its tier is 'good' iff that is > 0, 'bad' iff it is < 0, 'warning' iff
\* it is 0.
C2_MacdTierMatchesSign ==
    MacdCalled =>
        LET lines == macd_lines(df)
        IN  /\ ret.value = FSub(lines.macd[NBars], lines.signal[NBars])
            /\ (ret.signal = "good") <=> Above(ret.value, 0)
            /\ (ret.signal = "bad") <=> Below(ret.value, 0)
            /\ (ret.signal = "warning") <=> (ret.value = F(0))

\* C2 witness: a falling last bar gave a negative difference, tier 'bad'.
C2_Witness ==
    /\ MacdCalled /\ NBars >= MA_LONG
    /\ Closes[NBars] < Closes[NBars - 1]
    /\ Below(ret.value, 0) /\ ret.signal = "bad"

DeathCrossCalled == ret.fn = "detect_death_cross" /\ ret.raised = ""

\* The sum of the last w closes.
LastSum(w) == SumRange(Closes, NBars - w + 1, NBars)

\* mean of the last MA_SHORT closes < mean of the last MA_LONG closes
ShortMeanBelowLong == LastSum(MA_SHORT) * MA_LONG < LastSum(MA_LONG) * MA_SHORT

\* C3: on a series of at least 200 bars detect_death_cross returns
\* (True, 'bad') exactly when the mean of the last 50 closes is strictly less
\* than the mean of the last 200, and (False, 'good') otherwise, equal means
\* included.
C3_DeathCrossByMeans ==
    (DeathCrossCalled /\ NBars >= MA_LONG) =>
        IF ShortMeanBelowLong
        THEN ret.value = TRUE /\ ret.signal = "bad"
        ELSE ret.value = FALSE /\ ret.signal = "good"

\* C3 witness: the two means are equal on a series that is not flat, and the
\* result is (False, 'good').
C3_Witness ==
    /\ DeathCrossCalled /\ NBars >= MA_LONG
    /\ LastSum(MA_SHORT) * MA_LONG = LastSum(MA_LONG) * MA_SHORT
    /\ Closes[NBars] # Closes[NBars - 1]
    /\ ret.value = FALSE /\ ret.signal = "good"

\* C4 (as claimed): on a series of fewer than 200 bars the death-cross
\* evaluation reports neither 'good' nor 'bad'.
C4_InsufficientHistorySurfaced ==
    (ret.fn = "detect_death_cross" /\ NBars < MA_LONG) =>
        ret.signal \notin {"good", "bad"}

\* C5: on a series of more than 14 bars whose last 14 price changes include a
\* rise, the RSI returned is a number in [0, 100], and it is exactly 100 when
\* the average loss over these changes is 0.
C5_RsiInRange ==
    (RsiCalled /\ NBars > RSI_PERIOD /\ MoveSum(TRUE) > 0) =>
        /\ IsNum(ret.value)
        /\ ~Below(ret.value, 0) /\ ~Above(ret.value, 100)
        /\ (MoveSum(FALSE) = 0 => ret.value = F(100))

\* C5 witness: rises and no fall among the last 14 changes, RSI 100.
C5_Witness ==
    /\ RsiCalled /\ NBars > RSI_PERIOD
    /\ MoveSum(TRUE) > 0 /\ MoveSum(FALSE) = 0
    /\ ret.value = F(100)

\* The close is the same over the last RSI_PERIOD + 1 bars.
FlatTail ==
    /\ NBars >= RSI_PERIOD + 1
    /\ \A i \in (NBars - RSI_PERIOD)..NBars : Closes[i] = Closes[NBars]

\* C6 (as claimed): with a constant close over the last 15 bars calculate_rsi
\* returns a number in [0, 100], classified 'warning'.
C6_FlatRsiDefined ==
    (RsiCalled /\ FlatTail) =>
        /\ IsNum(ret.value)
        /\ ~Below(ret.value, 0) /\ ~Above(ret.value, 100)
        /\ ret.signal = "warning"

---------------------------------------------------------------------------
(* Properties of the support and resistance levels (SpecLevels).           *)

LevelsCalled == ret.fn = "calculate_support_resistance"

\* The window centred on bar i lies within the series and has no missing
\* cell of column low (TRUE) or high.
WindowOf(i, w) == (i - (w \div 2))..(i + ((w - 1) \div 2))

Low(i) == df.rows[i].Low

High(i) == df.rows[i].High

\* The distinct lows that equal the centred rolling minimum of Low.
SupportCandidates(w) ==
    {Low(i) : i \in {j \in 1..NBars :
        /\ \A k \in WindowOf(j, w) : k \in 1..NBars /\ Low(k) # NA
        /\ \A k \in WindowOf(j, w) : Low(j) <= Low(k)}}

\* The distinct highs that equal the centred rolling maximum of High.
ResistanceCandidates(w) ==
    {High(i) : i \in {j \in 1..NBars :
        /\ \A k \in WindowOf(j, w) : k \in 1..NBars /\ High(k) # NA
        /\ \A k \in WindowOf(j, w) : High(j) >= High(k)}}

Ascending(l) == \A i \in 1..(Len(l) - 1) : l[i] < l[i + 1]

\* C7: calculate_support_resistance returns as support the 3 largest support
\* candidates and as resistance the 3 smallest resistance candidates; each
\* list has at most 3 elements, in ascending order, none repeated.
C7_LevelSelection ==
    LevelsCalled =>
        LET S == SupportCandidates(ret.window)
            R == ResistanceCandidates(ret.window)
        IN  /\ Range(ret.support) = {x \in S : Cardinality({y \in S : y > x}) < 3}
            /\ Range(ret.resistance) = {x \in R : Cardinality({y \in R : y < x}) < 3}
            /\ Len(ret.support) <= 3 /\ Len(ret.resistance) <= 3
            /\ Ascending(ret.support) /\ Ascending(ret.resistance)

\* C7 witness: with the default window there are more than 3 candidates on
\* either side, and the two lists returned differ from the candidates.
C7_Witness ==
    /\ LevelsCalled /\ ret.window = SR_WINDOW
    /\ Cardinality(SupportCandidates(SR_WINDOW)) > 3
    /\ Cardinality(ResistanceCandidates(SR_WINDOW)) > 3
    /\ Len(ret.support) = 3 /\ Len(ret.resistance) = 3

---------------------------------------------------------------------------
(* Properties of the preparation functions (Spec).                         *)

\* The Series invariant: no missing value, timestamps strictly increasing.
IsSeries(data) ==
    /\ NoMissing(data)
    /\ \A i \in 1..(Len(data.rows) - 1) : data.rows[i].ts < data.rows[i + 1].ts

\* C8 (as claimed): the frame clean_stock_data returns satisfies the Series
\* invariant, whatever the raw frame was.
C8_CleanYieldsSeries == ret.fn = "clean_stock_data" => IsSeries(df)

\* C9 (as claimed): clean_stock_data never returns an empty series as a
\* successful result; it fails with EmptySeries instead.
C9_EmptySeriesRaised ==
    ret.fn = "clean_stock_data" =>
        IF Len(df.rows) = 0 THEN ret.raised = "EmptySeries" ELSE ret.raised = ""

\* C10 (as claimed): a call of calculate_support_resistance or of
\* prepare_data_for_analysis leaves the caller's frame as it was: same bars,
\* same columns.
C10_InputUnchanged ==
    [][ret'.fn \in {"calculate_support_resistance", "prepare_data_for_analysis"}
         => df' = df]_vars

---------------------------------------------------------------------------
(* Properties of the outlier detection and of the resampling               *)
(* (SpecProcessor).                                                        *)

OutliersCalled == ret.fn = "detect_outliers"

\* The standard deviation of the column is 0: it has two values or more and
\* they are all equal.
ZeroStd(name) ==
    /\ HasColumn(df, name)
    /\ LET s == FloatColumn(df, name)
       IN  /\ Cardinality(Valid(s, NBars)) >= 2
           /\ \A i, j \in Valid(s, NBars) : s[i] = s[j]

\* C11: detect_outliers on a column whose standard deviation is 0 raises
\* nothing and returns the empty list, whatever the threshold.
C11_ZeroStdNoOutliers ==
    (OutliersCalled /\ ZeroStd(ret.column)) =>
        ret.raised = "" /\ ret.value = <<>>

\* C11 witness: three bars of one close, threshold 0, and the empty list
\* returned.
C11_Witness ==
    /\ OutliersCalled /\ ret.column = "Close" /\ ZeroStd("Close")
    /\ NBars = 3 /\ NoMissing(df) /\ ret.threshold = 0
    /\ ret.raised = "" /\ ret.value = <<>>

\* C12 (as claimed): detect_outliers asked for a name that is no column of
\* the frame raises nothing and returns an InvalidColumn error.
C12_InvalidColumnReported ==
    (OutliersCalled /\ ~HasColumn(df, ret.column)) =>
        /\ ret.raised = ""
        /\ "error" \in DOMAIN ret
        /\ ret.error = "InvalidColumn"

ResampleCalled == ret.fn = "resample_data" /\ ret.raised = ""

\* The daily bars of the week that ends on the Sunday label.
BarsOfWeek(label) == {i \in 1..NBars : df.rows[i].ts \in (label - 6)..label}

\* C13: resample_data to weekly of a daily series gives one bucket for every
\* week from the first bar's to the last bar's; the Close of a bucket is the
\* Close of the last daily bar of its week and its Volume the sum of the
\* Volumes of the daily bars of its week (a week without a bar has no Close
\* and Volume 0).
C13_WeeklyCloseLastVolumeSum ==
    (ResampleCalled /\ ret.freq = "W" /\ IsSeries(df)) =>
        LET out == ret.value.rows
        IN  /\ \A i \in 1..NBars : \E b \in 1..Len(out) : i \in BarsOfWeek(out[b].ts)
            /\ \A b \in 1..Len(out) :
                 LET bars == BarsOfWeek(out[b].ts)
                 IN  IF bars = {}
                     THEN out[b].Close = NA /\ out[b].Volume = 0
                     ELSE /\ out[b].Close = df.rows[Extreme(bars, FALSE)].Close
                          /\ out[b].Volume =
                               SumRange(Column(df, "Volume"),
                                        Extreme(bars, TRUE), Extreme(bars, FALSE))

\* C13 witness: two bars of different closes in the first week and one in
\* the third; the first bucket has the close of the second bar and the sum
\* of the two volumes.
C13_Witness ==
    /\ ResampleCalled /\ ret.freq = "W" /\ IsSeries(df) /\ NBars = 3
    /\ df.rows[1].Close # df.rows[2].Close
    /\ Len(ret.value.rows) = 3
    /\ ret.value.rows[1].Close = df.rows[2].Close
    /\ ret.value.rows[1].Volume = df.rows[1].Volume + df.rows[2].Volume
    /\ ret.value.rows[3].Close = df.rows[3].Close

\* C17 (as claimed): resample_data called on a non-empty series that
\* clean_stock_data has just returned raises nothing.
C17_ResampleAfterClean ==
    [][(/\ ret.fn = "clean_stock_data" /\ IsSeries(df) /\ NBars > 0
        /\ ret'.fn = "resample_data")
         => ret'.raised = ""]_vars

---------------------------------------------------------------------------
(* Properties of the endpoints (SpecServer).                               *)

\* The places in the log of the last request where the HTTPException of
\* the date check (status 400) was raised.
DateCheckRaises ==
    {i \in 1..Len(ret.log) : ret.log[i].ev = "HTTPException" /\ ret.log[i].code = 400}

\* C14 (as claimed): a request to /analysis for a valid symbol whose
\* start_date is later than its end_date, or whose end_date is in the
\* future, is answered with status 400, and no call to the data provider
\* follows the failed date check.
C14_DateCheckEndsRequest ==
    (/\ ret.fn = "get_stock_analysis" /\ ret.valid
     /\ DateCheckFails([start_date |-> ret.start_date, end_date |-> ret.end_date])) =>
        /\ ret.status = 400
        /\ \A i \in DateCheckRaises :
             \A j \in (i + 1)..Len(ret.log) : ret.log[j].ev \notin ProviderCalls

\* C15 (as claimed): /indicators answers 404 for an invalid symbol and 400
\* for a valid symbol with start_date later than end_date.
C15_IndicatorsStatusPreserved ==
    ret.fn = "get_stock_indicators" =>
        /\ (~ret.valid => ret.status = 404)
        /\ (/\ ret.valid
            /\ ret.start_date.parses /\ ret.end_date.parses
            /\ ret.start_date.day > ret.end_date.day) => ret.status = 400

\* The places in the log of the last request of calls to the data provider.
ProviderEvents == {i \in 1..Len(ret.log) : ret.log[i].ev \in ProviderCalls}

\* C16 (as claimed): between two consecutive calls to the data provider in
\* one run of a handler there is a call of apply_rate_limit, and the second
\* is sent at least RATE_LIMIT_DELAY after the first.
C16_ProviderCallsSpaced ==
    ret.fn \in {"search_stock", "get_stock_analysis", "get_stock_indicators"} =>
        \A i, j \in ProviderEvents :
            (i < j /\ \A k \in (i + 1)..(j - 1) : k \notin ProviderEvents) =>
                /\ \E k \in (i + 1)..(j - 1) : ret.log[k].ev = "apply_rate_limit"
                /\ ret.log[j].at - ret.log[i].at >= RATE_LIMIT_DELAY

===========================================================================
